---- MODULE Spec2Model ----
(***************************************************************************)
(* A model of the kirara-ai message layer:                                 *)
(*   - MediaMessage (src/kirara_ai/im/message.py): the lazily resolved     *)
(*     media resource, its constructor, its three accessors and to_dict;   *)
(*   - TelegramAdapter (src/plugins/im_telegram_adapter/adapter.py):       *)
(*     send_message, start/stop and set_chat_editing_state.                *)
(*                                                                         *)
(* Conventions.  Python's None is the string None for str-valued fields    *)
(* and the record NoneB for bytes-valued ones; bytes are sequences of      *)
(* integers 0..255.  A str/bytes value is "truthy" when it is neither None *)
(* nor empty, as in Python.                                                *)
(***************************************************************************)
EXTENDS Integers, Sequences, FiniteSets, TLC

VARIABLES
    \* ---- MediaMessage ----
    world,      \* the bytes stored behind the resource's url / path
    built,      \* "no" | "ok" | "ValueError": outcome of the constructor
    nSupplied,  \* how many of {url, path, data+format} the caller supplied
    m,          \* the instance: kind, url, path, data, format, resource_type
    nFetch,     \* completed network fetches (session.get + resp.read)
    nRead,      \* completed file reads (aiofiles.open + f.read)
    nSniff,     \* calls of magic.from_buffer
    tmpFiles,   \* contents of the temporary files written, in order
    calls,      \* number of accessor / to_dict calls made so far
    lastOp,     \* name of the last MediaMessage operation
    first,      \* accessor -> what its first successful call returned
    last,       \* accessor -> what its latest call returned
    dictOut,    \* what the last to_dict call returned
    given,      \* the fields as the constructor left them
    \* ---- TelegramAdapter.send_message ----
    msg,        \* message.message_elements, as the sequence of element kinds
    rcpt,       \* the recipient ChatSender
    pc,         \* where the coroutine is suspended
    idx,        \* index (1-based) of the element being handled
    chat,       \* the resolved chat_id
    apiLog,     \* platform calls issued by this send_message call, in order
    inflight,   \* platform calls issued and not yet returned
    delivered,  \* indices whose send call returned normally, in order
    failedAt,   \* the element and platform call that raised, or NoFailure
    err,        \* the exception send_message ended with, or ""
    \* ---- TelegramAdapter lifecycle and set_chat_editing_state ----
    app,        \* python-telegram-bot Application / Updater flags
    life,       \* the last start/stop call and how it ended
    edit,       \* the last set_chat_editing_state call and how it ended
    botLog,     \* chat actions sent by set_chat_editing_state, in order
    warnings,   \* number of logger.warning records
    \* ---- IMMessage and its elements ----
    elems,      \* message.message_elements of one IMMessage
    view,       \* the last projection taken of it and its result
    \* ---- TelegramAdapter.convert_to_message ----
    event,      \* the Update being converted
    conv,       \* how the conversion ended and the IMMessage it built
    \* ---- GeminiAdapter.chat ----
    llm,        \* the last chat call: request, backend answer, wire data, result
    \* ---- accessor coroutines sharing one url-only MediaMessage ----
    shared,     \* the instance the coroutines work on
    body,       \* the bytes the url answers with
    task,       \* coroutine -> accessor it runs, where it is suspended, result
    sFetch,     \* completed network fetches
    sTmp,       \* contents of the temporary files written, in order
    sCalls,     \* accessor calls started so far
    overlapped  \* two coroutines have been suspended at the fetch together

mediaVars == <<world, built, nSupplied, m, nFetch, nRead, nSniff, tmpFiles,
               calls, lastOp, first, last, dictOut, given>>
sendVars == <<msg, rcpt, pc, idx, chat, apiLog, inflight, delivered, failedAt, err>>
adapterVars == <<app, life, edit, botLog, warnings>>
msgVars == <<elems, view>>
convVars == <<event, conv>>
llmVars == <<llm>>
overlapVars == <<shared, body, task, sFetch, sTmp, sCalls, overlapped>>
restVars == <<msgVars, convVars, llmVars, overlapVars>>
vars == <<mediaVars, sendVars, adapterVars, restVars>>

(***************************************************************************)
(* Bounds of the model.                                                    *)
(***************************************************************************)
MaxBytes == 2     \* longest byte string behind a url / path or given as data
MaxCalls == 3     \* accessor / to_dict calls made on one resource
MaxElems == 3     \* longest message_elements
MaxLog == 2       \* set_chat_editing_state calls recorded in botLog

(***************************************************************************)
(* Values.                                                                 *)
(***************************************************************************)
None == "None"
NoneB == [isNone |-> TRUE, bytes |-> <<>>]
Bytes(b) == [isNone |-> FALSE, bytes |-> b]

Truthy(s) == s # None /\ s # ""
TruthyB(d) == ~d.isNone /\ Len(d.bytes) > 0

ByteVals == {137, 255}
Contents == UNION {[1..n -> ByteVals] : n \in 0..MaxBytes}


(***************************************************************************)
(* base64.b64encode(data).decode(): three bytes become four characters of  *)
(* the base64 alphabet, a trailing group of one or two bytes is padded     *)
(* with "=".  The result is the sequence of its characters.                *)
(***************************************************************************)
B64Alphabet ==
    <<"A","B","C","D","E","F","G","H","I","J","K","L","M","N","O","P",
      "Q","R","S","T","U","V","W","X","Y","Z","a","b","c","d","e","f",
      "g","h","i","j","k","l","m","n","o","p","q","r","s","t","u","v",
      "w","x","y","z","0","1","2","3","4","5","6","7","8","9","+","/">>

B64Char(sextet) == B64Alphabet[sextet + 1]

\* an encoder that drops a trailing group of one or two bytes
RECURSIVE b64encode_truncating(_)
b64encode_truncating(b) ==
    IF Len(b) < 3 THEN <<>>
    ELSE
        LET n == b[1] * 65536 + b[2] * 256 + b[3]
        IN  <<B64Char(n \div 262144), B64Char((n \div 4096) % 64),
              B64Char((n \div 64) % 64), B64Char(n % 64)>>
            \o b64encode_truncating(SubSeq(b, 4, Len(b)))

RECURSIVE b64encode(_)
b64encode(b) ==
    IF Len(b) = 0 THEN <<>>
    ELSE IF Len(b) = 1 THEN
        LET n == b[1] * 65536
        IN  <<B64Char(n \div 262144), B64Char((n \div 4096) % 64), "=", "=">>
    ELSE IF Len(b) = 2 THEN
        LET n == b[1] * 65536 + b[2] * 256
        IN  <<B64Char(n \div 262144), B64Char((n \div 4096) % 64),
              B64Char((n \div 64) % 64), "=">>
    ELSE
        LET n == b[1] * 65536 + b[2] * 256 + b[3]
        IN  <<B64Char(n \div 262144), B64Char((n \div 4096) % 64),
              B64Char((n \div 64) % 64), B64Char(n % 64)>>
            \o b64encode(SubSeq(b, 4, Len(b)))

(***************************************************************************)
(* magic.from_buffer(data, mime=True): the MIME type sniffed from the      *)
(* leading bytes, as <<top-level type, subtype>>.  An empty buffer is      *)
(* application/x-empty, a buffer starting with 0x89 is taken for a PNG,    *)
(* anything else is application/octet-stream.                              *)
(***************************************************************************)
from_buffer(b) ==
    IF Len(b) = 0 THEN <<"application", "x-empty">>
    ELSE IF b[1] = 137 THEN <<"image", "png">>
    ELSE <<"application", "octet-stream">>

(***************************************************************************)
(* MediaMessage.                                                           *)
(***************************************************************************)
MediaKinds == {"voice", "image", "file", "video"}
Accessors == {"get_url", "get_path", "get_data"}

Blank == [kind |-> "none", url |-> None, path |-> None, data |-> NoneB,
          format |-> None, resource_type |-> "media"]

\* _from_url / _from_path / _from_data
from_url_(r, url, format) ==
    [r EXCEPT !.url = url, !.path = None, !.data = NoneB, !.format = format]
from_path_(r, path, format) ==
    [r EXCEPT !.path = path, !.url = None, !.data = NoneB, !.format = format]
from_data_(r, data, format) ==
    [r EXCEPT !.data = data, !.format = format, !.url = None, !.path = None]

\* __init__: the instance, or the exception it raises
MediaInit(kind, url, path, data, format) ==
    LET r == [kind |-> kind, url |-> url, path |-> path, data |-> data,
              format |-> format, resource_type |-> "media"]
    IN  IF Truthy(url) THEN [exc |-> "", m |-> from_url_(r, url, format)]
        ELSE IF Truthy(path) THEN [exc |-> "", m |-> from_path_(r, path, format)]
        ELSE IF TruthyB(data) /\ Truthy(format)
             THEN [exc |-> "", m |-> from_data_(r, data, format)]
        ELSE [exc |-> "ValueError", m |-> Blank]

\* How many of the three representations a caller supplied.
Supplied(url, path, data, format) ==
    (IF Truthy(url) THEN 1 ELSE 0) + (IF Truthy(path) THEN 1 ELSE 0)
    + (IF TruthyB(data) /\ Truthy(format) THEN 1 ELSE 0)

(***************************************************************************)
(* The world an accessor sees, w: the bytes behind the url or the file the *)
(* resource was built from (w.remote) and the temporary files written so   *)
(* far (w.tmp), which NamedTemporaryFile names TmpNames[1], TmpNames[2]... *)
(***************************************************************************)
TmpNames == <<"/tmp/tmp1", "/tmp/tmp2", "/tmp/tmp3", "/tmp/tmp4", "/tmp/tmp5">>

World(remote, tmp) == [remote |-> remote, tmp |-> tmp]

\* what open(path, "rb").read() yields
FileContent(path, w) ==
    IF \E i \in 1..Len(w.tmp) : TmpNames[i] = path
    THEN w.tmp[CHOOSE i \in 1..Len(w.tmp) : TmpNames[i] = path]
    ELSE w.remote

(***************************************************************************)
(* What the environment does to one accessor call: every I/O succeeds, the *)
(* file read / network fetch raises, or magic.from_buffer raises.          *)
(***************************************************************************)
EnvOutcomes == {"ok", "io_error", "magic_error"}

\* _detect_format
detect_format_(r, env) ==
    IF Truthy(r.format) THEN [m |-> r, exc |-> "", sniffed |-> 0]
    ELSE IF env = "magic_error" THEN [m |-> r, exc |-> "MagicException", sniffed |-> 1]
    ELSE LET mime == from_buffer(r.data.bytes)
         IN  [m |-> [r EXCEPT !.format = mime[2], !.resource_type = mime[1]],
              exc |-> "", sniffed |-> 1]

\* _load_data_from_path: self.data = f.read(), then _detect_format
load_data_from_path_(r, w, env) ==
    IF env = "io_error"
    THEN [m |-> r, exc |-> "OSError", read |-> 0, fetched |-> 0, sniffed |-> 0]
    ELSE LET d == detect_format_([r EXCEPT !.data = Bytes(FileContent(r.path, w))], env)
         IN  [m |-> d.m, exc |-> d.exc, read |-> 1, fetched |-> 0, sniffed |-> d.sniffed]

\* _load_data_from_url: self.data = resp.read(), then _detect_format
load_data_from_url_(r, w, env) ==
    IF env = "io_error"
    THEN [m |-> r, exc |-> "ClientError", read |-> 0, fetched |-> 0, sniffed |-> 0]
    ELSE LET d == detect_format_([r EXCEPT !.data = Bytes(w.remote)], env)
         IN  [m |-> d.m, exc |-> d.exc, read |-> 0, fetched |-> 1, sniffed |-> d.sniffed]

NoLoad(r) == [m |-> r, exc |-> "", read |-> 0, fetched |-> 0, sniffed |-> 0]

(***************************************************************************)
(* Return values of the accessors.                                         *)
(***************************************************************************)
NoRet == [st |-> "none", form |-> "", s |-> "", t |-> "", f |-> "", b |-> <<>>, p |-> <<>>]
Raise(e) == [NoRet EXCEPT !.st = "raise", !.s = e]
RetStr(v) == [NoRet EXCEPT !.st = "ok", !.form = "str", !.s = v]
RetBytes(d) == [NoRet EXCEPT !.st = "ok", !.form = "bytes", !.b = d]
\* f"data:{resource_type}/{format};base64,{payload}"
RetDataUri(t, f, payload) ==
    [NoRet EXCEPT !.st = "ok", !.form = "datauri", !.t = t, !.f = f, !.p = payload]

Outcome(l, ret, wrote) ==
    [m |-> l.m, ret |-> ret, read |-> l.read, fetched |-> l.fetched,
     sniffed |-> l.sniffed, wrote |-> wrote]

\* get_url
get_url_strict(r, w, env) ==
    IF Truthy(r.url) THEN Outcome(NoLoad(r), RetStr(r.url), <<>>)
    ELSE Outcome(NoLoad(r), Raise("ValueError"), <<>>)
get_url(r, w, env) ==
    IF Truthy(r.url) THEN Outcome(NoLoad(r), RetStr(r.url), <<>>)
    ELSE IF ~TruthyB(r.data) /\ ~Truthy(r.path)
         THEN Outcome(NoLoad(r), Raise("ValueError"), <<>>)
    ELSE LET l == IF ~TruthyB(r.data) THEN load_data_from_path_(r, w, env) ELSE NoLoad(r)
         IN  IF l.exc # "" THEN Outcome(l, Raise(l.exc), <<>>)
             ELSE Outcome(l, RetDataUri(l.m.resource_type, l.m.format,
                                        b64encode(l.m.data.bytes)), <<>>)

\* a get_path that writes the temporary file and forgets its name
get_path_unrecorded(r, w, env, tmp) ==
    IF Truthy(r.path) THEN Outcome(NoLoad(r), RetStr(r.path), <<>>)
    ELSE IF ~TruthyB(r.data) /\ ~Truthy(r.url)
         THEN Outcome(NoLoad(r), Raise("ValueError"), <<>>)
    ELSE LET l == IF ~TruthyB(r.data) THEN load_data_from_url_(r, w, env) ELSE NoLoad(r)
         IN  IF l.exc # "" THEN Outcome(l, Raise(l.exc), <<>>)
             ELSE Outcome(l, RetStr(tmp), <<l.m.data.bytes>>)

\* get_path; tmp is the name NamedTemporaryFile gives the next file
get_path(r, w, env, tmp) ==
    IF Truthy(r.path) THEN Outcome(NoLoad(r), RetStr(r.path), <<>>)
    ELSE IF ~TruthyB(r.data) /\ ~Truthy(r.url)
         THEN Outcome(NoLoad(r), Raise("ValueError"), <<>>)
    ELSE LET l == IF ~TruthyB(r.data) THEN load_data_from_url_(r, w, env) ELSE NoLoad(r)
         IN  IF l.exc # "" THEN Outcome(l, Raise(l.exc), <<>>)
             ELSE Outcome([l EXCEPT !.m.path = tmp], RetStr(tmp), <<l.m.data.bytes>>)

\* get_data
get_data(r, w, env) ==
    IF TruthyB(r.data) THEN Outcome(NoLoad(r), RetBytes(r.data.bytes), <<>>)
    ELSE IF Truthy(r.path) THEN
        LET l == load_data_from_path_(r, w, env)
        IN  Outcome(l, IF l.exc # "" THEN Raise(l.exc) ELSE RetBytes(l.m.data.bytes), <<>>)
    ELSE IF Truthy(r.url) THEN
        LET l == load_data_from_url_(r, w, env)
        IN  Outcome(l, IF l.exc # "" THEN Raise(l.exc) ELSE RetBytes(l.m.data.bytes), <<>>)
    ELSE Outcome(NoLoad(r), Raise("ValueError"), <<>>)

(***************************************************************************)
(* to_dict.  VoiceMessage, ImageMessage and FileElement build the five     *)
(* field map; VideoElement.to_dict reads self.file, an attribute no        *)
(* constructor sets, and raises AttributeError.                            *)
(***************************************************************************)
NoDict == [st |-> "none", type |-> "", url |-> None, path |-> None,
           data |-> [isNone |-> TRUE, text |-> <<>>], format |-> None]

to_dict(r) ==
    IF r.kind = "video" THEN [NoDict EXCEPT !.st = "AttributeError"]
    ELSE [st |-> "ok", type |-> r.kind, url |-> r.url, path |-> r.path,
          data |-> IF TruthyB(r.data)
                   THEN [isNone |-> FALSE, text |-> b64encode(r.data.bytes)]
                   ELSE [isNone |-> TRUE, text |-> <<>>],
          format |-> r.format]


(***************************************************************************)
(* MediaMessage: initial state and operations.  One resource is built and  *)
(* then used through non-overlapping calls.                                *)
(***************************************************************************)
Urls == {None, "", "http://u"}
Paths == {None, "", "/p"}
Datas == {NoneB} \cup {Bytes(c) : c \in Contents}
Formats == {None, "", "png"}

MediaStart ==
    /\ world \in Contents
    /\ built = "no"
    /\ nSupplied = 0
    /\ m = Blank
    /\ nFetch = 0 /\ nRead = 0 /\ nSniff = 0
    /\ tmpFiles = <<>>
    /\ calls = 0
    /\ lastOp = "none"
    /\ first = [a \in Accessors |-> NoRet]
    /\ last = [a \in Accessors |-> NoRet]
    /\ dictOut = NoDict
    /\ given = [url |-> None, path |-> None, data |-> NoneB, format |-> None]

\* MediaMessage(url, path, data, format) of one of the concrete classes
Construct(kind, url, path, data, format) ==
    /\ built = "no"
    /\ LET c == MediaInit(kind, url, path, data, format)
       IN  /\ built' = IF c.exc = "" THEN "ok" ELSE c.exc
           /\ m' = c.m
           /\ given' = [url |-> c.m.url, path |-> c.m.path, data |-> c.m.data, format |-> c.m.format]
    /\ nSupplied' = Supplied(url, path, data, format)
    /\ lastOp' = "__init__"
    /\ UNCHANGED <<world, nFetch, nRead, nSniff, tmpFiles, calls, first, last, dictOut>>
    /\ UNCHANGED <<sendVars, adapterVars, restVars>>

\* The effect of one accessor call that ended with outcome o.
Apply(acc, o) ==
    /\ m' = o.m
    /\ nFetch' = nFetch + o.fetched
    /\ nRead' = nRead + o.read
    /\ nSniff' = nSniff + o.sniffed
    /\ tmpFiles' = tmpFiles \o o.wrote
    /\ calls' = calls + 1
    /\ lastOp' = acc
    /\ first' = IF first[acc].st = "none" /\ o.ret.st = "ok"
                THEN [first EXCEPT ![acc] = o.ret] ELSE first
    /\ last' = [last EXCEPT ![acc] = o.ret]
    /\ UNCHANGED <<world, built, nSupplied, dictOut, given>>
    /\ UNCHANGED <<sendVars, adapterVars, restVars>>

CallGetUrl(env) ==
    /\ built = "ok" /\ calls < MaxCalls
    /\ Apply("get_url", get_url(m, World(world, tmpFiles), env))

CallGetPath(env) ==
    /\ built = "ok" /\ calls < MaxCalls
    /\ Len(tmpFiles) < Len(TmpNames)
    /\ Apply("get_path", get_path(m, World(world, tmpFiles), env, TmpNames[Len(tmpFiles) + 1]))

CallGetData(env) ==
    /\ built = "ok" /\ calls < MaxCalls
    /\ Apply("get_data", get_data(m, World(world, tmpFiles), env))

\* element.to_dict(): builds the map from the fields, assigns nothing
CallToDict ==
    /\ built = "ok" /\ calls < MaxCalls
    /\ dictOut' = to_dict(m)
    /\ calls' = calls + 1
    /\ lastOp' = "to_dict"
    /\ UNCHANGED <<world, built, nSupplied, m, nFetch, nRead, nSniff, tmpFiles, first, last, given>>
    /\ UNCHANGED <<sendVars, adapterVars, restVars>>

NextMedia ==
    \/ \E k \in MediaKinds, u \in Urls, p \in Paths, d \in Datas, f \in Formats :
          Construct(k, u, p, d, f)
    \/ \E env \in EnvOutcomes : CallGetUrl(env)
    \/ \E env \in EnvOutcomes : CallGetPath(env)
    \/ \E env \in EnvOutcomes : CallGetData(env)
    \/ CallToDict


(***************************************************************************)
(* TelegramAdapter.send_message.  The coroutine is followed from one await *)
(* to the next: an action is the return of the awaited platform call and   *)
(* the code that runs up to the next await.  The elements of a message are *)
(* distinct objects, given by their class; "mention" stands for every      *)
(* class the if/elif chain has no branch for.                              *)
(***************************************************************************)
ElemKinds == {"text", "image", "voice", "mention"}
Messages == UNION {[1..n -> ElemKinds] : n \in 0..MaxElems}

Recipients ==
    {[chat_type |-> "C2C", user_id |-> "U", group_id |-> None],
     [chat_type |-> "GROUP", user_id |-> "U", group_id |-> "G"],
     [chat_type |-> "OTHER", user_id |-> "U", group_id |-> None]}

NoFailure == [elem |-> 0, api |-> ""]

\* the isinstance chain of the loop body
Supported(kind) == kind \in {"text", "image", "voice"}
\* a chat action that announces an upload for every element
ChatActionOfUpload(kind) ==
    IF kind = "image" THEN "upload_photo" ELSE "upload_voice"
ChatActionOf(kind) ==
    IF kind = "text" THEN "typing"
    ELSE IF kind = "image" THEN "upload_photo" ELSE "upload_voice"
SendApiOf(kind) ==
    IF kind = "text" THEN "send_message"
    ELSE IF kind = "image" THEN "send_photo" ELSE "send_voice"

\* lines 115-120: the chat_id of the recipient, or the ValueError
ResolveChatIdAny(r) ==
    IF r.chat_type = "C2C" THEN [exc |-> "", chat_id |-> r.user_id]
    ELSE [exc |-> "", chat_id |-> r.group_id]
ResolveChatId(r) ==
    IF r.chat_type = "C2C" THEN [exc |-> "", chat_id |-> r.user_id]
    ELSE IF r.chat_type = "GROUP" THEN [exc |-> "", chat_id |-> r.group_id]
    ELSE [exc |-> "ValueError", chat_id |-> None]

\* the for loop, once the body of element i has run: the element it takes next
AdvanceStuck(i) == i
Advance(i) == i + 1

\* the loop from element i on, up to the first element that has a branch:
\* elements without one fall through the if/elif chain
NextSupportedBreak(ms, i) ==
    IF i > Len(ms) THEN i
    ELSE IF Supported(ms[i]) THEN i ELSE Len(ms) + 1
RECURSIVE NextSupported(_, _)
NextSupported(ms, i) ==
    IF i > Len(ms) THEN i
    ELSE IF Supported(ms[i]) THEN i ELSE NextSupported(ms, i + 1)

ChatActionCall(ms, i, c) ==
    [api |-> "send_chat_action", action |-> ChatActionOf(ms[i]), elem |-> i, chat_id |-> c]
SendCall(ms, i, c) ==
    [api |-> SendApiOf(ms[i]), action |-> "", elem |-> i, chat_id |-> c]

SendStart ==
    /\ msg = <<>>
    /\ rcpt = [chat_type |-> "C2C", user_id |-> "U", group_id |-> None]
    /\ pc = "idle"
    /\ idx = 0
    /\ chat = None
    /\ apiLog = <<>>
    /\ inflight = {}
    /\ delivered = <<>>
    /\ failedAt = NoFailure
    /\ err = ""

\* Reach element j of ms: past the end the call returns, otherwise the
\* element's chat action is issued and awaited.
Dispatch(ms, j, c, log) ==
    IF j > Len(ms)
    THEN /\ pc' = "done"
         /\ idx' = j
         /\ apiLog' = log
         /\ inflight' = {}
    ELSE /\ pc' = "await_chat_action"
         /\ idx' = j
         /\ apiLog' = Append(log, ChatActionCall(ms, j, c))
         /\ inflight' = {ChatActionCall(ms, j, c)}

\* send_message(message, recipient), up to its first await
SendMessage(ms, r) ==
    /\ pc \in {"idle", "done", "raised"}
    /\ msg' = ms
    /\ rcpt' = r
    /\ delivered' = <<>>
    /\ failedAt' = NoFailure
    /\ UNCHANGED <<mediaVars, adapterVars, restVars>>
    /\ LET c == ResolveChatId(r)
       IN  IF c.exc # ""
           THEN /\ pc' = "raised"
                /\ err' = c.exc
                /\ chat' = None
                /\ idx' = 0
                /\ apiLog' = <<>>
                /\ inflight' = {}
           ELSE /\ err' = ""
                /\ chat' = c.chat_id
                /\ Dispatch(ms, NextSupported(ms, 1), c.chat_id, <<>>)

\* issue the element's send call and await it
IssueSend ==
    /\ pc' = "await_send"
    /\ apiLog' = Append(apiLog, SendCall(msg, idx, chat))
    /\ inflight' = {SendCall(msg, idx, chat)}
    /\ UNCHANGED <<idx, delivered, failedAt, err>>

\* the awaited platform call raises: nothing catches it
Propagate ==
    /\ pc' = "raised"
    /\ err' = "TelegramError"
    /\ failedAt' = [elem |-> idx, api |-> apiLog[Len(apiLog)].api]
    /\ inflight' = {}
    /\ UNCHANGED <<idx, apiLog, delivered>>

\* send_chat_action returns or raises
ChatActionReturns(ok) ==
    /\ pc = "await_chat_action"
    /\ UNCHANGED <<msg, rcpt, chat, mediaVars, adapterVars, restVars>>
    /\ IF ~ok THEN Propagate
       ELSE IF msg[idx] = "text" /\ idx > 1
       THEN /\ pc' = "sleep"
            /\ inflight' = {}
            /\ UNCHANGED <<idx, apiLog, delivered, failedAt, err>>
       ELSE IssueSend

\* asyncio.sleep(duration) returns
SleepReturns ==
    /\ pc = "sleep"
    /\ UNCHANGED <<msg, rcpt, chat, mediaVars, adapterVars, restVars>>
    /\ IssueSend

\* send_message / send_photo / send_voice returns or raises
SendReturns(ok) ==
    /\ pc = "await_send"
    /\ UNCHANGED <<msg, rcpt, chat, mediaVars, adapterVars, restVars>>
    /\ IF ~ok THEN Propagate
       ELSE /\ delivered' = Append(delivered, idx)
            /\ Dispatch(msg, NextSupported(msg, Advance(idx)), chat, apiLog)
            /\ UNCHANGED <<failedAt, err>>

NextSend ==
    \/ \E ms \in Messages, r \in Recipients : SendMessage(ms, r)
    \/ \E ok \in BOOLEAN : ChatActionReturns(ok)
    \/ SleepReturns
    \/ \E ok \in BOOLEAN : SendReturns(ok)


(***************************************************************************)
(* TelegramAdapter.start / stop.  The adapter keeps no flag of its own:    *)
(* what a call does is decided by python-telegram-bot's Application and    *)
(* Updater, whose methods check their own state flags and raise            *)
(* RuntimeError when called in the wrong one.                              *)
(***************************************************************************)
Fresh == [initialized |-> FALSE, running |-> FALSE, polling |-> FALSE]

Step(a, exc) == [app |-> a, exc |-> exc]

\* Application.initialize(): returns at once when already initialized,
\* otherwise reaches the Bot API and may fail there
app_initialize(a, net) ==
    IF a.initialized THEN Step(a, "")
    ELSE IF net = "init_fails" THEN Step(a, "TelegramError")
    ELSE Step([a EXCEPT !.initialized = TRUE], "")

\* Application.start(): refuses to start twice
app_start(a) ==
    IF a.running \/ ~a.initialized THEN Step(a, "RuntimeError")
    ELSE Step([a EXCEPT !.running = TRUE], "")

\* Updater.start_polling(): refuses to start twice, may fail on the network
updater_start_polling(a, net) ==
    IF a.polling \/ ~a.initialized THEN Step(a, "RuntimeError")
    ELSE IF net = "polling_fails" THEN Step(a, "TelegramError")
    ELSE Step([a EXCEPT !.polling = TRUE], "")

\* Updater.stop(): "This Updater is not running!"
updater_stop(a) ==
    IF ~a.polling THEN Step(a, "RuntimeError")
    ELSE Step([a EXCEPT !.polling = FALSE], "")

\* Application.stop(): "This Application is not running!"
app_stop(a) ==
    IF ~a.running THEN Step(a, "RuntimeError")
    ELSE Step([a EXCEPT !.running = FALSE], "")

\* Application.shutdown(): refuses while running, returns at once when not
\* initialized
app_shutdown(a) ==
    IF a.running THEN Step(a, "RuntimeError")
    ELSE Step([a EXCEPT !.initialized = FALSE], "")

\* TelegramAdapter.start: the three awaits in turn, up to the first that raises
AdapterStart(a, net) ==
    LET s1 == app_initialize(a, net)
        s2 == IF s1.exc # "" THEN s1 ELSE app_start(s1.app)
        s3 == IF s2.exc # "" THEN s2 ELSE updater_start_polling(s2.app, net)
    IN  s3

\* TelegramAdapter.stop: the three awaits in turn, up to the first that raises
AdapterStop(a) ==
    LET s1 == updater_stop(a)
        s2 == IF s1.exc # "" THEN s1 ELSE app_stop(s1.app)
        s3 == IF s2.exc # "" THEN s2 ELSE app_shutdown(s2.app)
    IN  s3

NetOutcomes == {"ok", "init_fails", "polling_fails"}

NoLife == [op |-> "none", pre |-> Fresh, result |-> ""]

Start(net) ==
    /\ LET s == AdapterStart(app, net)
       IN  /\ app' = s.app
           /\ life' = [op |-> "start", pre |-> app,
                       result |-> IF s.exc = "" THEN "ok" ELSE s.exc]
    /\ UNCHANGED <<edit, botLog, warnings, mediaVars, sendVars, restVars>>

Stop ==
    /\ LET s == AdapterStop(app)
       IN  /\ app' = s.app
           /\ life' = [op |-> "stop", pre |-> app,
                       result |-> IF s.exc = "" THEN "ok" ELSE s.exc]
    /\ UNCHANGED <<edit, botLog, warnings, mediaVars, sendVars, restVars>>

(***************************************************************************)
(* TelegramAdapter.set_chat_editing_state.                                 *)
(***************************************************************************)
NoEdit == [called |-> FALSE, chat_type |-> "", is_editing |-> FALSE,
           platform_ok |-> TRUE, result |-> "", warned |-> FALSE]

\* lines 160-168: what the try / except Exception makes of the platform
\* call's outcome
Uncaught(ok) ==
    [result |-> IF ok THEN "returned" ELSE "raised", warned |-> FALSE]
TryExcept(ok) ==
    [result |-> "returned", warned |-> ~ok]

SetChatEditingState(cs, is_editing, ok) ==
    /\ Len(botLog) < MaxLog
    /\ LET action == IF is_editing THEN "typing" ELSE "cancel"
           chat_id == IF cs.chat_type = "C2C" THEN cs.user_id ELSE cs.group_id
           t == TryExcept(ok)
       IN  /\ botLog' = Append(botLog, [action |-> action, chat_id |-> chat_id])
           /\ warnings' = warnings + (IF t.warned THEN 1 ELSE 0)
           /\ edit' = [called |-> TRUE, chat_type |-> cs.chat_type,
                       is_editing |-> is_editing, platform_ok |-> ok,
                       result |-> t.result, warned |-> t.warned]
    /\ UNCHANGED <<app, life, mediaVars, sendVars, restVars>>

AdapterStartState ==
    /\ app = Fresh
    /\ life = NoLife
    /\ edit = NoEdit
    /\ botLog = <<>>
    /\ warnings = 0

NextAdapter ==
    \/ \E net \in NetOutcomes : Start(net)
    \/ Stop
    \/ \E cs \in Recipients, e \in BOOLEAN, ok \in BOOLEAN : SetChatEditingState(cs, e, ok)

(***************************************************************************)
(* MessageElement.to_plain / to_dict and IMMessage.content.  A str that is *)
(* concatenated or stripped is the sequence of its characters.             *)
(***************************************************************************)
Whitespace == {" ", "\n", "\t", "\r"}

\* the characters of the url / path values used in this model
CharsOf(str) ==
    IF str = "http://u" THEN <<"h","t","t","p",":","/","/","u">>
    ELSE IF str = "/p" THEN <<"/","p">>
    ELSE IF str = "/tmp/tmp1" THEN <<"/","t","m","p","/","t","m","p","1">>
    ELSE <<>>

\* An element: its class, the str it carries (text, message_id, face_id,
\* data, or the name a mention prints) and, for a media class, the resource.
Element(cls, text, r) == [cls |-> cls, text |-> text, r |-> r]

Texts == {<<>>, <<"a">>, <<"b">>, <<" ", "a">>, <<"b", "\n">>}

MediaElement(kind, url, path) ==
    Element(kind, <<>>, MediaInit(kind, url, path, NoneB, None).m)

TextElements == {Element("text", t, Blank) : t \in Texts}
MediaElements ==
    {MediaElement("image", "http://u", None), MediaElement("voice", "http://u", None),
     MediaElement("file", None, "/p"), MediaElement("video", "http://u", None)}
OtherElements ==
    {Element("mention", <<"b","o","b">>, Blank), Element("reply", <<"7">>, Blank),
     Element("face", <<"1">>, Blank), Element("json", <<"{","}">>, Blank),
     Element("at", <<"b","o","b">>, Blank)}
AllElements == TextElements \cup MediaElements \cup OtherElements

\* the elements a received message is made of in this model
Received ==
    TextElements \cup {MediaElement("image", "http://u", None),
                       Element("mention", <<"b","o","b">>, Blank)}
IMMessages == UNION {[1..n -> Received] : n \in 0..MaxElems}

\* to_plain of each class
to_plain(e) ==
    IF e.cls = "text" THEN e.text
    ELSE IF e.cls = "voice" THEN <<"[","V","o","i","c","e","M","e","s","s","a","g","e","]">>
    ELSE IF e.cls = "image" THEN <<"[","I","m","a","g","e","M","e","s","s","a","g","e","]">>
    ELSE IF e.cls \in {"at", "mention"} THEN <<"@">> \o e.text
    ELSE IF e.cls = "reply" THEN <<"[","R","e","p","l","y",":">> \o e.text \o <<"]">>
    ELSE IF e.cls = "file" THEN
        <<"[","F","i","l","e",":">>
        \o (IF Truthy(e.r.path) THEN CharsOf(e.r.path)
            ELSE IF Truthy(e.r.url) THEN CharsOf(e.r.url)
            ELSE <<"u","n","n","a","m","e","d">>)
        \o <<"]">>
    ELSE IF e.cls = "json" THEN <<"[","J","S","O","N"," ","M","e","s","s","a","g","e","]">>
    ELSE IF e.cls = "face" THEN <<"[","F","a","c","e",":">> \o e.text \o <<"]">>
    ELSE <<"[","V","i","d","e","o"," ","M","e","s","s","a","g","e","]">>

\* str.strip()
RECURSIVE lstrip(_)
lstrip(str) ==
    IF Len(str) > 0 /\ str[1] \in Whitespace THEN lstrip(Tail(str)) ELSE str
RECURSIVE rstrip(_)
rstrip(str) ==
    IF Len(str) > 0 /\ str[Len(str)] \in Whitespace
    THEN rstrip(SubSeq(str, 1, Len(str) - 1)) ELSE str
strip(str) == rstrip(lstrip(str))

\* the loop of IMMessage.content from element i on, acc being `content`
RECURSIVE ContentLoopNewlines(_, _, _)
ContentLoopNewlines(ms, i, acc) ==
    IF i > Len(ms) THEN acc
    ELSE ContentLoopNewlines(ms, i + 1, acc \o to_plain(ms[i]) \o <<"\n">>)
RECURSIVE ContentLoop(_, _, _)
ContentLoop(ms, i, acc) ==
    IF i > Len(ms) THEN acc
    ELSE ContentLoop(ms, i + 1,
                     acc \o to_plain(ms[i])
                         \o (IF ms[i].cls = "text" THEN <<"\n">> ELSE <<>>))

\* IMMessage.content
content(ms) == strip(ContentLoop(ms, 1, <<>>))

\* to_dict of each class: how the call ends, the "type" entry and the keys
\* of the map
DictOf(e) ==
    IF e.cls = "text" THEN [st |-> "ok", type |-> "text", keys |-> {"type", "text"}]
    ELSE IF e.cls \in MediaKinds THEN
        LET d == to_dict(e.r)
        IN  IF d.st = "ok"
            THEN [st |-> "ok", type |-> d.type, keys |-> {"type", "url", "path", "data", "format"}]
            ELSE [st |-> d.st, type |-> "", keys |-> {}]
    ELSE [st |-> "ok", type |-> e.cls, keys |-> {"type", "data"}]

NoView == [op |-> "none", cls |-> "", st |-> "", type |-> "", keys |-> {}, text |-> <<>>]

MessageStart ==
    /\ elems = <<>>
    /\ view = NoView

\* message.content
ReadContent ==
    /\ view' = [NoView EXCEPT !.op = "content", !.st = "ok", !.text = content(elems)]
    /\ UNCHANGED <<elems, mediaVars, sendVars, adapterVars, convVars, llmVars, overlapVars>>

\* element.to_dict() of an element of any class
ElementToDict(e) ==
    /\ LET d == DictOf(e)
       IN  view' = [NoView EXCEPT !.op = "to_dict", !.cls = e.cls, !.st = d.st,
                                  !.type = d.type, !.keys = d.keys]
    /\ UNCHANGED <<elems, mediaVars, sendVars, adapterVars, convVars, llmVars, overlapVars>>

\* element.to_plain() of an element of any class
ElementToPlain(e) ==
    /\ view' = [NoView EXCEPT !.op = "to_plain", !.cls = e.cls, !.st = "ok",
                              !.text = to_plain(e)]
    /\ UNCHANGED <<elems, mediaVars, sendVars, adapterVars, convVars, llmVars, overlapVars>>

NextMessage ==
    \/ ReadContent
    \/ \E e \in AllElements : ElementToDict(e)
    \/ \E e \in AllElements : ElementToPlain(e)

(***************************************************************************)
(* TelegramAdapter.convert_to_message.  An Update is given by the fields   *)
(* the method reads: message.chat.type, message.chat_id, message.from_user,*)
(* message.sender_chat, message.text, message.voice, message.photo; a      *)
(* sticker stands for content the method has no branch for.                *)
(* The adapter is written against python-telegram-bot 20 (Application,     *)
(* filters, awaited bot calls), where Voice.get_file and                   *)
(* PhotoSize.get_file are coroutine functions: called without await they   *)
(* give a coroutine object, which has no attribute file_path.              *)
(***************************************************************************)
NoUser == [present |-> FALSE, username |-> None, first_name |-> None,
           last_name |-> None, id |-> None]
User(username, first_name, last_name) ==
    [present |-> TRUE, username |-> username, first_name |-> first_name,
     last_name |-> last_name, id |-> "42"]
Users == {User("alice", "A", "B"), User(None, "A", "B"), User(None, "A", None),
          User(None, None, None)}

ChatTypes == {"private", "group", "supergroup", "channel"}

Updates ==
    [chat_type : ChatTypes, chat_id : {"CH"}, from_user : Users \cup {NoUser},
     sender_chat : {None, "SC"}, text : {None, "hi"},
     voice : BOOLEAN, photo : BOOLEAN, sticker : BOOLEAN]

\* get_display_name: username, else "first last" (a missing part printed as
\* None), else the id; AttributeError when there is no user
get_display_name(user) ==
    IF ~user.present THEN [exc |-> "AttributeError", name |-> <<>>]
    ELSE IF Truthy(user.username) THEN [exc |-> "", name |-> <<user.username>>]
    ELSE IF Truthy(user.first_name) \/ Truthy(user.last_name)
         THEN [exc |-> "", name |-> <<user.first_name, user.last_name>>]
    ELSE [exc |-> "", name |-> <<user.id>>]

NoSender == [chat_type |-> "", user_id |-> None, group_id |-> None, display_name |-> <<>>]

\* lines 71-77: the ChatSender of the event
SenderOf(ev) ==
    LET dn == get_display_name(ev.from_user)
    IN  IF ev.chat_type \in {"group", "supergroup"}
        THEN IF ev.sender_chat = None \/ dn.exc # ""
             THEN [exc |-> "AttributeError", sender |-> NoSender]
             ELSE [exc |-> "",
                   sender |-> [chat_type |-> "GROUP", user_id |-> ev.sender_chat,
                               group_id |-> ev.chat_id, display_name |-> dn.name]]
        ELSE IF dn.exc # "" THEN [exc |-> dn.exc, sender |-> NoSender]
             ELSE [exc |-> "",
                   sender |-> [chat_type |-> "C2C", user_id |-> ev.chat_id,
                               group_id |-> None, display_name |-> dn.name]]

\* lines 84-103: the elements built from the content, or the exception
ElementsOf(ev) ==
    LET texts == IF Truthy(ev.text) THEN <<"text">> ELSE <<>>
    IN  IF ev.voice \/ ev.photo
        THEN [exc |-> "AttributeError", elements |-> <<>>]
        ELSE [exc |-> "", elements |-> texts]

NoConv == [st |-> "none", exc |-> "", sender |-> NoSender, elements |-> <<>>]

\* convert_to_message
convert_to_message(ev) ==
    LET sd == SenderOf(ev)
        el == ElementsOf(ev)
    IN  IF sd.exc # "" THEN [NoConv EXCEPT !.st = "raised", !.exc = sd.exc]
        ELSE IF el.exc # "" THEN [NoConv EXCEPT !.st = "raised", !.exc = el.exc]
        ELSE [st |-> "ok", exc |-> "", sender |-> sd.sender, elements |-> el.elements]

ConvertStart ==
    /\ event = [chat_type |-> "private", chat_id |-> "CH", from_user |-> NoUser,
                sender_chat |-> None, text |-> None, voice |-> FALSE,
                photo |-> FALSE, sticker |-> FALSE]
    /\ conv = NoConv

\* handle_message: self.convert_to_message(update)
Convert(ev) ==
    /\ event' = ev
    /\ conv' = convert_to_message(ev)
    /\ UNCHANGED <<mediaVars, sendVars, adapterVars, msgVars, llmVars, overlapVars>>

NextConvert == \E ev \in Updates : Convert(ev)

(***************************************************************************)
(* GeminiAdapter.chat.  A dict is a function from its keys; an optional    *)
(* value is Nothing (None) or Some(v).                                     *)
(***************************************************************************)
Nothing == [isNone |-> TRUE, v |-> <<>>]
Some(v) == [isNone |-> FALSE, v |-> v]

Requests ==
    [temperature : {Nothing, Some(<<"0.7">>)}, top_p : {Nothing, Some(<<"0.9">>)},
     max_tokens : {Nothing, Some(<<"256">>)},
     stop : {Nothing, Some(<<>>), Some(<<"END">>)}]

\* What the backend does with the POST: the connection fails, the status is
\* an error, the body is not JSON, or the body is JSON with or without
\* candidates and with or without promptFeedback.blockReason.
Answers ==
    {[kind |-> "conn_error", candidates |-> FALSE, blockReason |-> ""],
     [kind |-> "http_error", candidates |-> FALSE, blockReason |-> ""],
     [kind |-> "bad_json", candidates |-> FALSE, blockReason |-> ""],
     [kind |-> "json", candidates |-> TRUE, blockReason |-> ""],
     [kind |-> "json", candidates |-> TRUE, blockReason |-> "OTHER"],
     [kind |-> "json", candidates |-> FALSE, blockReason |-> "SAFETY"],
     [kind |-> "json", candidates |-> FALSE, blockReason |-> ""]}

\* lines 29-35
GenerationConfig(req) ==
    [temperature |-> req.temperature, topP |-> req.top_p, topK |-> Some(<<"40">>),
     maxOutputTokens |-> req.max_tokens, stopSequences |-> req.stop]

\* line 40: {k: v for k, v in data.items() if v is not None}
DropNone(d) == [k \in {x \in DOMAIN d : ~d[x].isNone} |-> d[k]]

\* lines 24-40: the JSON body posted
WireData(req) ==
    DropNone([contents |-> Some(<<"messages">>),
              generationConfig |-> Some(GenerationConfig(req)),
              safetySettings |-> Some(<<>>)])

NoResponse == [id |-> "", content |-> "", finish_reason |-> ""]
NoChat == [called |-> FALSE, req |-> [temperature |-> Nothing, top_p |-> Nothing,
                                      max_tokens |-> Nothing, stop |-> Nothing],
           answer |-> [kind |-> "", candidates |-> FALSE, blockReason |-> ""],
           posted |-> FALSE, wire |-> WireData([temperature |-> Nothing, top_p |-> Nothing,
                                                max_tokens |-> Nothing, stop |-> Nothing]),
           st |-> "", exc |-> "", response |-> NoResponse]

\* a chat that answers with a response whatever the backend did
ChatOutcomeSwallow(ans) ==
    IF ans.kind = "json" /\ ans.candidates
    THEN [st |-> "returned", exc |-> "",
          response |-> [id |-> ans.blockReason, content |-> "text", finish_reason |-> "stop"]]
    ELSE [st |-> "returned", exc |-> "", response |-> NoResponse]
\* lines 42-72: what chat makes of the backend's answer
ChatOutcome(ans) ==
    IF ans.kind = "conn_error"
    THEN [st |-> "raised", exc |-> "ConnectionError", response |-> NoResponse]
    ELSE IF ans.kind = "http_error"
    THEN [st |-> "raised", exc |-> "HTTPError", response |-> NoResponse]
    ELSE IF ans.kind = "bad_json"
    THEN [st |-> "raised", exc |-> "JSONDecodeError", response |-> NoResponse]
    ELSE IF ~ans.candidates
    THEN [st |-> "raised", exc |-> "KeyError", response |-> NoResponse]
    ELSE [st |-> "returned", exc |-> "",
          response |-> [id |-> ans.blockReason, content |-> "text", finish_reason |-> "stop"]]

ChatStart == llm = NoChat

\* GeminiAdapter.chat(req), the backend answering ans
Chat(req, ans) ==
    /\ LET o == ChatOutcome(ans)
       IN  llm' = [called |-> TRUE, req |-> req, answer |-> ans, posted |-> ans.kind # "conn_error",
                   wire |-> WireData(req), st |-> o.st, exc |-> o.exc,
                   response |-> o.response]
    /\ UNCHANGED <<mediaVars, sendVars, adapterVars, msgVars, convVars, overlapVars>>

NextChat == \E req \in Requests, ans \in Answers : Chat(req, ans)

(***************************************************************************)
(* Accessor coroutines of several callers on one MediaMessage built from a *)
(* url.  A coroutine runs without interruption from one await that         *)
(* suspends to the next: the network fetch in _load_data_from_url and the  *)
(* file read in _load_data_from_path suspend; _detect_format and           *)
(* NamedTemporaryFile do not.                                              *)
(***************************************************************************)
Tasks == {1, 2}

\* the await an accessor reaches first on instance r, "" when it returns
\* or raises without suspending
Suspends(acc, r) ==
    IF acc = "get_url"
    THEN IF ~Truthy(r.url) /\ ~TruthyB(r.data) /\ Truthy(r.path) THEN "read" ELSE ""
    ELSE IF acc = "get_path"
    THEN IF ~Truthy(r.path) /\ ~TruthyB(r.data) /\ Truthy(r.url) THEN "fetch" ELSE ""
    ELSE IF TruthyB(r.data) THEN ""
         ELSE IF Truthy(r.path) THEN "read"
         ELSE IF Truthy(r.url) THEN "fetch" ELSE ""

\* an accessor that does not suspend
Direct(acc, r, w, tmp) ==
    IF acc = "get_url" THEN get_url(r, w, "ok")
    ELSE IF acc = "get_path" THEN get_path(r, w, "ok", tmp)
    ELSE get_data(r, w, "ok")

\* the rest of an accessor once the load l it awaited is over
AfterLoad(acc, l, tmp) ==
    IF l.exc # "" THEN Outcome(l, Raise(l.exc), <<>>)
    ELSE IF acc = "get_url"
    THEN Outcome(l, RetDataUri(l.m.resource_type, l.m.format,
                               b64encode(l.m.data.bytes)), <<>>)
    ELSE IF acc = "get_path"
    THEN Outcome([l EXCEPT !.m.path = tmp], RetStr(tmp), <<l.m.data.bytes>>)
    ELSE Outcome(l, RetBytes(l.m.data.bytes), <<>>)

NoTask == [pc |-> "idle", acc |-> "", ret |-> NoRet]

OverlapStart ==
    /\ shared = Blank
    /\ body = <<>>
    /\ task = [t \in Tasks |-> NoTask]
    /\ sFetch = 0
    /\ sTmp = <<>>
    /\ sCalls = 0
    /\ overlapped = FALSE

\* the effects of an accessor that has run to its end
Finish(t, acc, o) ==
    /\ shared' = o.m
    /\ sFetch' = sFetch + o.fetched
    /\ sTmp' = sTmp \o o.wrote
    /\ task' = [task EXCEPT ![t] = [pc |-> "done", acc |-> acc, ret |-> o.ret]]
    /\ UNCHANGED overlapped

\* coroutine t calls accessor acc and runs to its first suspension
Begin(t, acc) ==
    /\ task[t].pc \in {"idle", "done"}
    /\ sCalls < MaxCalls
    /\ Len(sTmp) < Len(TmpNames)
    /\ sCalls' = sCalls + 1
    /\ LET at == Suspends(acc, shared)
       IN  IF at = ""
           THEN Finish(t, acc, Direct(acc, shared, World(body, sTmp),
                                      TmpNames[Len(sTmp) + 1]))
           ELSE /\ task' = [task EXCEPT ![t] = [pc |-> at, acc |-> acc, ret |-> NoRet]]
                /\ overlapped' =
                      (overlapped \/ (at = "fetch"
                                      /\ \E u \in Tasks \ {t} : task[u].pc = "fetch"))
                /\ UNCHANGED <<shared, sFetch, sTmp>>
    /\ UNCHANGED <<body, mediaVars, sendVars, adapterVars, msgVars, convVars, llmVars>>

\* the fetch or file read coroutine t awaits is over; env is how it and the
\* format detection ended
Resume(t, env) ==
    /\ task[t].pc \in {"fetch", "read"}
    /\ Len(sTmp) < Len(TmpNames)
    /\ LET w == World(body, sTmp)
           l == IF task[t].pc = "fetch" THEN load_data_from_url_(shared, w, env)
                ELSE load_data_from_path_(shared, w, env)
       IN  Finish(t, task[t].acc, AfterLoad(task[t].acc, l, TmpNames[Len(sTmp) + 1]))
    /\ UNCHANGED <<body, sCalls, mediaVars, sendVars, adapterVars, msgVars, convVars, llmVars>>

NextOverlap ==
    \/ \E t \in Tasks, acc \in Accessors : Begin(t, acc)
    \/ \E t \in Tasks, env \in EnvOutcomes : Resume(t, env)

(***************************************************************************)
(* Specifications.                                                         *)
(***************************************************************************)
\* no media resource is in play
MediaUnused == MediaStart /\ world = <<>>

\* no message is being read, no update converted, no chat request made
RestStart == MessageStart /\ ConvertStart /\ ChatStart /\ OverlapStart

Init == MediaStart /\ SendStart /\ AdapterStartState /\ RestStart

InitIdle == MediaUnused /\ SendStart /\ AdapterStartState /\ RestStart

\* an IMMessage has been received
InitMessage ==
    /\ MediaUnused /\ SendStart /\ AdapterStartState /\ ConvertStart /\ ChatStart
    /\ OverlapStart
    /\ elems \in IMMessages
    /\ view = NoView

\* a MediaMessage built from a url is handed to the coroutines
InitOverlap ==
    /\ MediaUnused /\ SendStart /\ AdapterStartState
    /\ MessageStart /\ ConvertStart /\ ChatStart
    /\ shared \in {MediaInit(k, "http://u", None, NoneB, f).m :
                      k \in {"image", "voice"}, f \in {None, "png"}}
    /\ body \in Contents
    /\ task = [t \in Tasks |-> NoTask]
    /\ sFetch = 0 /\ sTmp = <<>> /\ sCalls = 0
    /\ overlapped = FALSE

Next ==
    \/ NextMedia \/ NextSend \/ NextAdapter \/ NextMessage \/ NextConvert \/ NextChat
    \/ NextOverlap

Spec == Init /\ [][Next]_vars

\* one media resource and the calls made on it
SpecMedia == Init /\ [][NextMedia]_vars

\* the send_message calls of one adapter
SpecSend == InitIdle /\ [][NextSend]_vars

\* the lifecycle and composing-state calls of one adapter
SpecAdapter == InitIdle /\ [][NextAdapter]_vars

\* the elements of one IMMessage and the reads made of them
SpecMessage == InitMessage /\ [][NextMessage]_vars

\* the updates converted by one adapter
SpecConvert == InitIdle /\ [][NextConvert]_vars

\* the chat requests made through one GeminiAdapter
SpecLLM == InitIdle /\ [][NextChat]_vars

\* the accessor calls of two callers on one MediaMessage built from a url
SpecOverlap == InitOverlap /\ [][NextOverlap]_vars


(***************************************************************************)
(* Properties of MediaMessage (checked under SpecMedia).                   *)
(***************************************************************************)

\* C1: for a resource built from exactly one representation, the network
\* fetch / file read completes at most once over all accessor calls, and a
\* later call of an accessor returns what its first call returned.
C1_LoadedAtMostOnce ==
    (built = "ok" /\ nSupplied = 1) =>
        /\ nFetch + nRead <= 1
        /\ \A a \in Accessors :
              (first[a].st = "ok" /\ last[a].st = "ok") => last[a] = first[a]

\* C2: the constructor succeeds exactly when one of {url, path, data+format}
\* is supplied; with none or with two or more it fails.
C2_ExactlyOneRepresentation ==
    built # "no" => (built = "ok" <=> nSupplied = 1)

\* C3 (as claimed): get_url on a resource that holds no url fails; it never
\* returns a value made from the bytes or the path.
C3_NoUrlFails ==
    (lastOp = "get_url" /\ ~Truthy(m.url)) => last["get_url"].st = "raise"

\* C3 (amended): get_url on a resource that holds no url returns the data:
\* URI "data:<resource_type>/<format>;base64,<base64 of the bytes>" of the
\* resource's bytes, read from the path first when they are not loaded; it
\* fails only when that file read or the format detection fails, never for
\* want of a url.
C3_NoUrlGivesDataUri ==
    (lastOp = "get_url" /\ ~Truthy(m.url)) =>
        LET r == last["get_url"]
        IN  \/ /\ r.st = "ok"
               /\ r.form = "datauri"
               /\ ~m.data.isNone
               /\ r.p = b64encode(m.data.bytes)
               /\ r.t = m.resource_type
               /\ r.f = m.format
            \/ /\ r.st = "raise"
               /\ r.s \in {"OSError", "MagicException"}
               /\ Truthy(m.path)

\* C3 witness: a resource built from a path answered get_url with a data:
\* URI of the bytes it read from the file.
C3_Witness ==
    /\ lastOp = "get_url"
    /\ ~Truthy(m.url)
    /\ nRead = 1
    /\ last["get_url"].st = "ok"
    /\ last["get_url"].form = "datauri"
    /\ Len(last["get_url"].p) > 0

\* C10: to_dict of a media element whose bytes are not materialized does no
\* fetch and no read, leaves the element as it was and serializes data as
\* None.
C10_ToDictWithoutIO ==
    [][(lastOp' = "to_dict" /\ calls' = calls + 1 /\ m.data.isNone) =>
          /\ nFetch' = nFetch /\ nRead' = nRead
          /\ m' = m
          /\ dictOut'.st = "ok"
          /\ dictOut'.data.isNone]_vars

(***************************************************************************)
(* Properties of send_message (checked under SpecSend).                    *)
(***************************************************************************)
Sends(log) == SelectSeq(log, LAMBDA c : c.api # "send_chat_action")
SupportedIdx(ms) == SelectSeq([i \in 1..Len(ms) |-> i], LAMBDA i : Supported(ms[i]))
IsPrefix(a, b) == Len(a) <= Len(b) /\ a = SubSeq(b, 1, Len(a))

\* C4: when the send call of one element fails, every later element with a
\* supported variant is still sent.
C4_SendFailureIsolated ==
    (pc \in {"done", "raised"} /\ failedAt.elem # 0 /\ failedAt.api # "send_chat_action") =>
        \A k \in (failedAt.elem + 1)..Len(msg) :
            Supported(msg[k]) => \E j \in 1..Len(apiLog) : apiLog[j] = SendCall(msg, k, chat)

\* C5: within one send_message call the send calls are issued in the order of
\* message_elements, one element at most once, and a call is issued only
\* when every earlier call has returned.
C5_SendsInOrder ==
    LET sends == Sends(apiLog)
    IN  /\ \A i, j \in 1..Len(sends) : i < j => sends[i].elem < sends[j].elem
        /\ \A i \in 1..Len(sends) :
              /\ sends[i].elem \in 1..Len(msg)
              /\ sends[i].api = SendApiOf(msg[sends[i].elem])
        /\ Cardinality(inflight) <= 1
        /\ inflight # {} => inflight = {apiLog[Len(apiLog)]}
        /\ IsPrefix(delivered, [i \in 1..Len(sends) |-> sends[i].elem])
        /\ Len(sends) - Len(delivered) <= 1

\* C5 witness: a call that sent three elements has returned.
C5_Witness ==
    pc = "done" /\ delivered = <<1, 2, 3>> /\ Len(Sends(apiLog)) = 3

\* C6: send_message to a recipient whose chat_type is neither C2C nor GROUP
\* raises ValueError and makes no platform call.
C6_UnsupportedRecipient ==
    (pc # "idle" /\ rcpt.chat_type \notin {"C2C", "GROUP"}) =>
        /\ pc = "raised"
        /\ err = "ValueError"
        /\ apiLog = <<>>
        /\ inflight = {}
        /\ delivered = <<>>

\* C6 witness: a non-empty message was refused for its recipient.
C6_Witness ==
    pc = "raised" /\ err = "ValueError" /\ rcpt.chat_type = "OTHER" /\ Len(msg) = 2

\* C7: an element of an unsupported variant is skipped without raising: no
\* failure is ever raised at such an element, the supported elements are
\* delivered in order around it, and a call that returns has delivered every
\* supported element.
C7_UnsupportedSkipped ==
    /\ IsPrefix(delivered, SupportedIdx(msg))
    /\ pc = "done" => delivered = SupportedIdx(msg)
    /\ pc = "raised" =>
          \/ err = "ValueError" /\ rcpt.chat_type \notin {"C2C", "GROUP"}
          \/ /\ err = "TelegramError"
             /\ failedAt.elem \in 1..Len(msg)
             /\ Supported(msg[failedAt.elem])

\* C7 witness: a batch of three whose second element is unsupported has
\* delivered elements 1 and 3.
C7_Witness ==
    /\ pc = "done"
    /\ Len(msg) = 3
    /\ ~Supported(msg[2])
    /\ delivered = <<1, 3>>

(***************************************************************************)
(* Properties of the lifecycle and of set_chat_editing_state (checked      *)
(* under SpecAdapter).                                                     *)
(***************************************************************************)

\* C8: stop on an adapter that is not started (never started, or already
\* stopped) raises nothing and leaves the adapter stopped.
C8_StopIsNoOp ==
    (life.op = "stop" /\ life.pre = Fresh) => (life.result = "ok" /\ app = Fresh)

\* C9: set_chat_editing_state returns normally whatever the platform call
\* does, for both values of is_editing; a failure is reported by a warning.
C9_EditingStateNeverRaises ==
    /\ edit.called => edit.result = "returned"
    /\ (edit.called /\ ~edit.platform_ok) => edit.warned
    /\ warnings <= Len(botLog)

\* C9 witness: a call cancelling the editing state whose chat action failed
\* has returned.
C9_Witness ==
    /\ edit.called
    /\ ~edit.is_editing
    /\ ~edit.platform_ok
    /\ edit.result = "returned"
    /\ warnings = 1


(***************************************************************************)
(* Properties of the message elements and IMMessage.content (checked       *)
(* under SpecMessage).                                                     *)
(***************************************************************************)
Variants == {"text", "image", "voice", "file", "video", "mention", "reply", "face", "json"}

\* C11: for every element variant to_dict returns a map whose type tag is
\* the variant's tag, and for image, voice, file and video the map has the
\* fields url, path, data and format.
C11_ToDictTagged ==
    (view.op = "to_dict" /\ view.cls \in Variants) =>
        /\ view.st = "ok"
        /\ view.type = view.cls
        /\ view.cls \in {"image", "voice", "file", "video"} =>
               {"url", "path", "data", "format"} \subseteq view.keys

\* the plain text of an element followed by a line break for a text element
Piece(e) == to_plain(e) \o (IF e.cls = "text" THEN <<"\n">> ELSE <<>>)
RECURSIVE Join(_)
Join(ms) == IF ms = <<>> THEN <<>> ELSE Piece(Head(ms)) \o Join(Tail(ms))
\* str without its leading and trailing whitespace
Trim(str) ==
    LET ink == {i \in 1..Len(str) : str[i] \notin Whitespace}
    IN  IF ink = {} THEN <<>>
        ELSE SubSeq(str, CHOOSE i \in ink : \A j \in ink : i <= j,
                         CHOOSE i \in ink : \A j \in ink : i >= j)
TextImageText ==
    <<Element("text", <<"a">>, Blank), MediaElement("image", "http://u", None),
      Element("text", <<"b">>, Blank)>>

\* C12 (as stated): content is the concatenation in element order of the
\* plain texts, a line break after each text element only, trimmed; for
\* [Text("a"), Image, Text("b")] it is "a\n[Image]b".
C12_ContentImageTag ==
    view.op = "content" =>
        /\ view.text = Trim(Join(elems))
        /\ elems = TextImageText =>
               view.text = <<"a", "\n", "[", "I", "m", "a", "g", "e", "]", "b">>

\* C12 (amended): the same concatenation; the image element's plain text is
\* "[ImageMessage]", so the example gives "a\n[ImageMessage]b".
C12_ContentJoined ==
    view.op = "content" =>
        /\ view.text = Trim(Join(elems))
        /\ elems = TextImageText =>
               view.text = <<"a", "\n", "[", "I", "m", "a", "g", "e", "M", "e", "s",
                             "s", "a", "g", "e", "]", "b">>

\* content has been read of [Text("a"), Image, Text("b")]
C12_Witness == view.op = "content" /\ elems = TextImageText

(***************************************************************************)
(* Further properties of MediaMessage (checked under SpecMedia).           *)
(***************************************************************************)

\* C13: over any sequence of accessor calls magic.from_buffer runs at most
\* once per resource, never runs when a format was supplied at
\* construction, and a format supplied at construction is never changed.
C13_SniffedAtMostOnce ==
    built = "ok" =>
        /\ nSniff <= 1
        /\ Truthy(given.format) => (nSniff = 0 /\ m.format = given.format)

\* C14: get_path on a resource that holds only bytes or only a url writes
\* the bytes to one fresh temporary file and records its path; every later
\* get_path returns that path and writes no further file.
C14_TempFileOnce ==
    /\ Len(tmpFiles) <= 1
    /\ m.path = TmpNames[1] <=> Len(tmpFiles) = 1
    /\ Len(tmpFiles) = 1 =>
          /\ tmpFiles[1] = m.data.bytes
          /\ last["get_path"] = RetStr(TmpNames[1])
          /\ first["get_path"] = last["get_path"]
    /\ (built = "ok" /\ last["get_path"].st = "ok") => last["get_path"] = RetStr(m.path)

\* get_path has been called twice on a resource built from bytes
C14_Witness ==
    /\ built = "ok" /\ ~given.data.isNone
    /\ calls = 2 /\ lastOp = "get_path"
    /\ last["get_url"].st = "none" /\ last["get_data"].st = "none"
    /\ Len(tmpFiles) = 1
    /\ last["get_path"] = RetStr(TmpNames[1])

\* base64.b64decode: four characters give three bytes, "=" padding marks a
\* last group of one or two bytes
B64Index(c) == (CHOOSE i \in 1..64 : B64Alphabet[i] = c) - 1
RECURSIVE b64decode(_)
b64decode(t) ==
    IF Len(t) < 4 THEN <<>>
    ELSE
        LET n == B64Index(t[1]) * 262144 + B64Index(t[2]) * 4096
                 + (IF t[3] = "=" THEN 0 ELSE B64Index(t[3]) * 64)
                 + (IF t[4] = "=" THEN 0 ELSE B64Index(t[4]))
            group == <<n \div 65536, (n \div 256) % 256, n % 256>>
        IN  IF t[3] = "=" THEN SubSeq(group, 1, 1)
            ELSE IF t[4] = "=" THEN SubSeq(group, 1, 2)
            ELSE group \o b64decode(SubSeq(t, 5, Len(t)))

\* the resource is an image built from data + format
ImageFromData ==
    /\ built = "ok" /\ m.kind = "image"
    /\ ~Truthy(given.url) /\ ~Truthy(given.path)

\* C20: to_dict of an image element built from raw bytes plus a format has
\* a data field that decodes (base64) to exactly the original bytes, and
\* the supplied format.
C20_DataRoundTrip ==
    (ImageFromData /\ dictOut.st # "none") =>
        /\ dictOut.st = "ok"
        /\ ~dictOut.data.isNone
        /\ b64decode(dictOut.data.text) = given.data.bytes
        /\ dictOut.format = given.format

\* to_dict has been called on an image built from two bytes and a format
C20_Witness ==
    /\ ImageFromData /\ lastOp = "to_dict" /\ dictOut.st = "ok"
    /\ Len(given.data.bytes) = MaxBytes
    /\ Len(dictOut.data.text) >= 4

(***************************************************************************)
(* Further properties of send_message (checked under SpecSend).            *)
(***************************************************************************)

\* C19: in send_message the platform send of every text element comes
\* directly after a typing chat action issued in the same call for the same
\* chat and the same element, hence after the previous element's send.
C19_TypingBeforeText ==
    \A j \in 1..Len(apiLog) :
        apiLog[j].api = "send_message" =>
            /\ j > 1
            /\ apiLog[j - 1] = [api |-> "send_chat_action", action |-> "typing",
                                elem |-> apiLog[j].elem, chat_id |-> chat]
            /\ apiLog[j].chat_id = chat
            /\ msg[apiLog[j].elem] = "text"

\* a call has sent a text element that follows another sent element
C19_Witness ==
    /\ pc = "done"
    /\ \E j \in 3..Len(apiLog) :
          /\ apiLog[j].api = "send_message"
          /\ apiLog[j - 2].elem < apiLog[j].elem
          /\ apiLog[j - 1].action = "typing"

(***************************************************************************)
(* Properties of convert_to_message (checked under SpecConvert).           *)
(***************************************************************************)

\* C15: every direct-chat or group-chat event that has a sending user
\* converts to an IMMessage (a group message of an ordinary user, which has
\* no sender_chat, included), whatever content it carries; the conversion
\* fails only for an event without a sender.
C15_ConvertsWhenSenderKnown ==
    (conv.st # "none" /\ event.from_user.present
     /\ event.chat_type \in {"private", "group", "supergroup"}) =>
        conv.st = "ok"

(***************************************************************************)
(* Properties of GeminiAdapter.chat (checked under SpecLLM).               *)
(***************************************************************************)

\* C16: the posted request has no stopSequences entry when req.stop is
\* None, has the stop list unchanged when it is populated, and serializes
\* no optional parameter that is None.
C16_NoAbsentOptional ==
    llm.called =>
        LET gc == llm.wire["generationConfig"].v
        IN  /\ llm.req.stop.isNone => "stopSequences" \notin DOMAIN gc
            /\ ~llm.req.stop.isNone =>
                  /\ "stopSequences" \in DOMAIN gc
                  /\ ~gc["stopSequences"].isNone
                  /\ gc["stopSequences"].v = llm.req.stop.v
            /\ \A k \in DOMAIN gc : ~gc[k].isNone

\* C17: when the backend answers with a block reason and no candidate, chat
\* returns a response that carries the block reason.
C17_BlockReasonKept ==
    (llm.called /\ llm.answer.kind = "json" /\ ~llm.answer.candidates
     /\ llm.answer.blockReason # "") =>
        /\ llm.st = "returned"
        /\ llm.response.id = llm.answer.blockReason

\* C18: when the call fails (no connection, error status, unparsable body)
\* chat raises and returns no response; a response is returned only after
\* a successful call whose body was parsed.
C18_FailureRaises ==
    llm.called =>
        /\ llm.answer.kind \in {"conn_error", "http_error", "bad_json"} =>
              (llm.st = "raised" /\ llm.exc # "" /\ llm.response = NoResponse)
        /\ llm.st = "returned" => (llm.answer.kind = "json" /\ llm.posted)

\* chat has raised on an error status
C18_Witness ==
    /\ llm.called /\ llm.posted
    /\ llm.answer.kind = "http_error"
    /\ llm.st = "raised" /\ llm.exc = "HTTPError"

(***************************************************************************)
(* Failing and overlapping resolutions of a MediaMessage.                  *)
(***************************************************************************)

\* C22: an accessor call whose resolution fails (file read, fetch or format
\* detection raising) raises and leaves url, path, data and format as they
\* were before the call; the constructor performs no I/O.
C22_FailureLeavesResource ==
    [][ /\ (calls' = calls + 1 /\ lastOp' \in Accessors
            /\ last'[lastOp'].st = "raise") =>
               /\ m'.url = m.url /\ m'.path = m.path
               /\ m'.data = m.data /\ m'.format = m.format
        /\ lastOp' = "__init__" =>
               /\ nFetch' = nFetch /\ nRead' = nRead /\ nSniff' = nSniff
               /\ tmpFiles' = tmpFiles ]_vars

\* C21: when two accessor calls on the same url-only resource have both
\* been suspended at the fetch, the resource is fetched at most once, at
\* most one temporary file is written, and the two calls return the same
\* value.
C21_OverlapFetchesOnce ==
    overlapped =>
        /\ sFetch <= 1
        /\ Len(sTmp) <= 1
        /\ \A t, u \in Tasks :
              (task[t].pc = "done" /\ task[u].pc = "done"
               /\ task[t].acc = task[u].acc
               /\ task[t].ret.st = "ok" /\ task[u].ret.st = "ok") =>
                  task[t].ret = task[u].ret


====
